---- MODULE Spec2Model ----
(***************************************************************************)
(* A model of the #[injectable] attribute macro of more-rs-di              *)
(* (src/src/di_macros/lib.rs).  One run of the macro is one behaviour: the  *)
(* initial state holds the attribute's metadata and the annotated item,    *)
(* and the actions are the stages of _injectable: parsing, locating the    *)
(* injected method, resolving its arguments one by one, rendering the      *)
(* Injectable implementation and emitting the output token stream.         *)
(*                                                                         *)
(* A type is the chain of its path layers, outermost first: Vec<Rc<dyn     *)
(* Bar>> is << Vec, Rc, dyn Bar >>.  Every layer but the last is a path    *)
(* whose angle brackets hold the next layer; the last is a path without    *)
(* arguments, a trait object or some other type (a tuple, a reference).    *)
(***************************************************************************)
EXTENDS Integers, Sequences, FiniteSets, TLC

VARIABLES metadata, input, pc, method, idx, args, deps, result, output

vars == << metadata, input, pc, method, idx, args, deps, result, output >>

-----------------------------------------------------------------------------
(* Bounds of the model *)

\* the largest number of items in an impl block
MaxItems == 2
\* the largest number of wrapper layers around a parameter's innermost type
MaxDepth == 4
\* the largest number of parameters of a method whose parameters vary freely
MaxParams == 3

-----------------------------------------------------------------------------
(* Syntax: types, paths, signatures, items *)

None == << >>

Some(x) == << x >>

Layer(kind, lead, ident) == [kind |-> kind, lead |-> lead, ident |-> ident]

PathLayer(ident) == Layer("path", "", ident)

\* syn::Path::segments.first().ident of a path layer: a qualified path such as
\* std::rc::Rc<T> starts with its leading segment, which carries no arguments
FirstIdent(layer) == IF layer.lead = "" THEN layer.ident ELSE layer.lead

Segment(ident, arguments) == [ident |-> ident, arguments |-> arguments]

LastIdent(path) == path[Len(path)].ident

SelfPath == << Segment("Self", "") >>

Typed(ty) == [kind |-> "typed", ty |-> ty]

Receiver == [kind |-> "receiver", ty |-> None]

Signature(ident, inputs) == [ident |-> ident, inputs |-> inputs]

Method(marked, sig) == [kind |-> "method", marked |-> marked, sig |-> sig]

\* an impl item that is no method (an associated const or type)
ConstItem == [kind |-> "const", marked |-> FALSE, sig |-> Signature("", << >>)]

NoSignature == Signature("", << >>)

-----------------------------------------------------------------------------
(* Diagnostics *)

MsgNotImpl == "Attribute can only be applied to a structure implementation block."
MsgExpectedImplType == "Expected implementation type."
MsgUnexpectedToken == "unexpected token"
MsgMissing == "Neither {}::new or an associated method decorated with #[inject] was found."
MsgAmbiguous == "{} has more than one associated method decorated with #[inject]."
MsgNotTyped == "The argument must be ServiceRef, Rc, or Arc and optionally wrapped with Option or Vec."
MsgExpectedRef == "Expected ServiceRef, Rc, or Arc."
MsgExpectedPath == "Expected type path."
MsgOptionVec == "Option<Vec> is not supported. Did you mean Vec?"
MsgExpectedTraitOrStruct == "Expected a trait or struct."

Ok(value) == [ok |-> TRUE, value |-> value, msg |-> ""]

Err(msg) == [ok |-> FALSE, value |-> None, msg |-> msg]

\* Error::new(span, format!(msg, ident))
ErrFor(msg, ident) == [ok |-> FALSE, value |-> Some(ident), msg |-> msg]

-----------------------------------------------------------------------------
(* ArgContext and the classification of one argument *)

ArgContext(type_, optional, many, lazy) ==
    [type_ |-> type_, optional |-> optional, many |-> many, lazy |-> lazy]

optional_of_many(context) == context.optional /\ context.many

\* The first type argument of the first path segment when that segment is
\* named `name`, else None.
\* a lookup of the wrapper by the last segment of the path
get_generic_type_arg_by_last_segment(type_, name) ==
    IF /\ Head(type_).kind = "path"
       /\ Head(type_).ident = name
       /\ Len(type_) > 1
    THEN Tail(type_)
    ELSE None

get_generic_type_arg(type_, name) ==
    IF /\ FirstIdent(Head(type_)) = name
       /\ Head(type_).lead = ""
       /\ Len(type_) > 1
    THEN Tail(type_)
    ELSE None

\* a context that forgets the Lazy wrapper it peeled
new_arg_context_lazy_dropped(arg) ==
    IF Head(arg).kind = "path"
    THEN LET lazyInner == get_generic_type_arg(arg, "Lazy")
             type_ == IF lazyInner # None /\ Head(lazyInner).kind = "path"
                      THEN lazyInner ELSE arg
             optionInner == get_generic_type_arg(type_, "Option")
             vecInner == get_generic_type_arg(type_, "Vec")
         IN  IF optionInner # None
             THEN IF Head(optionInner).kind = "path"
                  THEN Ok(ArgContext(optionInner, TRUE, FALSE, FALSE))
                  ELSE Err(MsgExpectedRef)
             ELSE IF vecInner # None
             THEN IF Head(vecInner).kind = "path"
                  THEN Ok(ArgContext(vecInner, FALSE, TRUE, FALSE))
                  ELSE Err(MsgExpectedRef)
             ELSE Ok(ArgContext(type_, FALSE, FALSE, FALSE))
    ELSE Err(MsgExpectedPath)

\* a context that reads Vec<Option<..>> as a collection, looking through the Option
new_arg_context_through_option(arg) ==
    IF Head(arg).kind = "path"
    THEN LET lazyInner == get_generic_type_arg(arg, "Lazy")
             peeled == IF lazyInner # None /\ Head(lazyInner).kind = "path"
                       THEN [type_ |-> lazyInner, lazy |-> TRUE]
                       ELSE [type_ |-> arg, lazy |-> FALSE]
             optionInner == get_generic_type_arg(peeled.type_, "Option")
             vecInner == get_generic_type_arg(peeled.type_, "Vec")
             nested == IF vecInner # None /\ Head(vecInner).kind = "path"
                       THEN get_generic_type_arg(vecInner, "Option")
                       ELSE None
         IN  IF optionInner # None
             THEN IF Head(optionInner).kind = "path"
                  THEN Ok(ArgContext(optionInner, TRUE, FALSE, peeled.lazy))
                  ELSE Err(MsgExpectedRef)
             ELSE IF vecInner # None
             THEN IF Head(vecInner).kind = "path"
                  THEN IF nested # None /\ Head(nested).kind = "path"
                       THEN Ok(ArgContext(nested, FALSE, TRUE, peeled.lazy))
                       ELSE Ok(ArgContext(vecInner, FALSE, TRUE, peeled.lazy))
                  ELSE Err(MsgExpectedRef)
             ELSE Ok(ArgContext(peeled.type_, FALSE, FALSE, peeled.lazy))
    ELSE Err(MsgExpectedPath)

new_arg_context(arg) ==
    IF Head(arg).kind = "path"
    THEN LET lazyInner == get_generic_type_arg(arg, "Lazy")
             peeled == IF lazyInner # None /\ Head(lazyInner).kind = "path"
                       THEN [type_ |-> lazyInner, lazy |-> TRUE]
                       ELSE [type_ |-> arg, lazy |-> FALSE]
             optionInner == get_generic_type_arg(peeled.type_, "Option")
             vecInner == get_generic_type_arg(peeled.type_, "Vec")
         IN  IF optionInner # None
             THEN IF Head(optionInner).kind = "path"
                  THEN Ok(ArgContext(optionInner, TRUE, FALSE, peeled.lazy))
                  ELSE Err(MsgExpectedRef)
             ELSE IF vecInner # None
             THEN IF Head(vecInner).kind = "path"
                  THEN Ok(ArgContext(vecInner, FALSE, TRUE, peeled.lazy))
                  ELSE Err(MsgExpectedRef)
             ELSE Ok(ArgContext(peeled.type_, FALSE, FALSE, peeled.lazy))
    ELSE Err(MsgExpectedPath)

\* quote! { <call>::<ty>(..) }: a retrieval expression
CallSite(call, ty) == [call |-> call, ty |-> ty]

\* quote! { di::ServiceDependency::new(di::Type::of::<ty>(), di::ServiceCardinality::<c>) }
ServiceDependency(ty, cardinality) == [ty |-> ty, cardinality |-> cardinality]

Resolved(arg, dep) == [arg |-> arg, dep |-> dep]

\* a trait family whose collection branch kept the optional cardinality
resolve_trait_type_many_as_optional(trait_, context) ==
    IF context.optional
    THEN Resolved(IF context.lazy
                  THEN CallSite("di::lazy::zero_or_one", trait_)
                  ELSE CallSite("sp.get", trait_),
                  Some(ServiceDependency(trait_, "ZeroOrOne")))
    ELSE IF context.many
    THEN Resolved(IF context.lazy
                  THEN CallSite("di::lazy::zero_or_more", trait_)
                  ELSE CallSite("sp.get_all.collect", trait_),
                  Some(ServiceDependency(trait_, "ZeroOrOne")))
    ELSE Resolved(IF context.lazy
                  THEN CallSite("di::lazy::exactly_one", trait_)
                  ELSE CallSite("sp.get_required", trait_),
                  Some(ServiceDependency(trait_, "ExactlyOne")))

resolve_trait_type(trait_, context) ==
    IF context.optional
    THEN Resolved(IF context.lazy
                  THEN CallSite("di::lazy::zero_or_one", trait_)
                  ELSE CallSite("sp.get", trait_),
                  Some(ServiceDependency(trait_, "ZeroOrOne")))
    ELSE IF context.many
    THEN Resolved(IF context.lazy
                  THEN CallSite("di::lazy::zero_or_more", trait_)
                  ELSE CallSite("sp.get_all.collect", trait_),
                  Some(ServiceDependency(trait_, "ZeroOrMore")))
    ELSE Resolved(IF context.lazy
                  THEN CallSite("di::lazy::exactly_one", trait_)
                  ELSE CallSite("sp.get_required", trait_),
                  Some(ServiceDependency(trait_, "ExactlyOne")))

\* a struct family that has no deferred collection
resolve_struct_type_many_never_lazy(struct_, context) ==
    IF context.optional
    THEN Resolved(IF context.lazy
                  THEN CallSite("di::lazy::zero_or_one", struct_)
                  ELSE CallSite("sp.get", struct_),
                  Some(ServiceDependency(struct_, "ZeroOrOne")))
    ELSE IF context.many
    THEN Resolved(CallSite("sp.get_all.collect", struct_),
                  Some(ServiceDependency(struct_, "ZeroOrMore")))
    ELSE Resolved(IF context.lazy
                  THEN CallSite("di::lazy::exactly_one", struct_)
                  ELSE CallSite("sp.get_required", struct_),
                  Some(ServiceDependency(struct_, "ExactlyOne")))

resolve_struct_type(struct_, context) ==
    IF context.optional
    THEN Resolved(IF context.lazy
                  THEN CallSite("di::lazy::zero_or_one", struct_)
                  ELSE CallSite("sp.get", struct_),
                  Some(ServiceDependency(struct_, "ZeroOrOne")))
    ELSE IF context.many
    THEN Resolved(IF context.lazy
                  THEN CallSite("di::lazy::zero_or_more", struct_)
                  ELSE CallSite("sp.get_all.collect", struct_),
                  Some(ServiceDependency(struct_, "ZeroOrMore")))
    ELSE Resolved(IF context.lazy
                  THEN CallSite("di::lazy::exactly_one", struct_)
                  ELSE CallSite("sp.get_required", struct_),
                  Some(ServiceDependency(struct_, "ExactlyOne")))

\* a lookup of the shared-ownership wrapper that does not know Arc
shared_type_arg_without_arc(type_) ==
    IF get_generic_type_arg(type_, "ServiceRef") # None
    THEN get_generic_type_arg(type_, "ServiceRef")
    ELSE get_generic_type_arg(type_, "Rc")

\* get_generic_type_arg(type_, "ServiceRef").or(.. "Rc").or(.. "Arc")
shared_type_arg(type_) ==
    IF get_generic_type_arg(type_, "ServiceRef") # None
    THEN get_generic_type_arg(type_, "ServiceRef")
    ELSE IF get_generic_type_arg(type_, "Rc") # None
    THEN get_generic_type_arg(type_, "Rc")
    ELSE get_generic_type_arg(type_, "Arc")

\* a resolver that also declares the provider handle as a dependency
resolve_type_provider_declared(arg) ==
    LET made == new_arg_context(arg) IN
    IF ~made.ok
    THEN Err(made.msg)
    ELSE LET context == made.value
             inner_type == shared_type_arg(context.type_)
         IN  IF inner_type # None
             THEN IF optional_of_many(context)
                  THEN Err(MsgOptionVec)
                  ELSE IF Head(inner_type).kind = "trait"
                  THEN Ok(resolve_trait_type(inner_type, context))
                  ELSE IF Head(inner_type).kind = "path"
                  THEN Ok(resolve_struct_type(inner_type, context))
                  ELSE Err(MsgExpectedTraitOrStruct)
             ELSE IF FirstIdent(Head(context.type_)) = "ServiceProvider"
             THEN Ok(Resolved(CallSite("sp.clone", None),
                              Some(ServiceDependency(context.type_, "ExactlyOne"))))
             ELSE Err(MsgExpectedRef)

\* a resolver that takes the provider handle only without Option, Vec or Lazy
resolve_type_plain_provider_only(arg) ==
    LET made == new_arg_context(arg) IN
    IF ~made.ok
    THEN Err(made.msg)
    ELSE LET context == made.value
             inner_type == shared_type_arg(context.type_)
         IN  IF inner_type # None
             THEN IF optional_of_many(context)
                  THEN Err(MsgOptionVec)
                  ELSE IF Head(inner_type).kind = "trait"
                  THEN Ok(resolve_trait_type(inner_type, context))
                  ELSE IF Head(inner_type).kind = "path"
                  THEN Ok(resolve_struct_type(inner_type, context))
                  ELSE Err(MsgExpectedTraitOrStruct)
             ELSE IF /\ FirstIdent(Head(context.type_)) = "ServiceProvider"
                     /\ ~context.optional /\ ~context.many /\ ~context.lazy
             THEN Ok(Resolved(CallSite("sp.clone", None), None))
             ELSE Err(MsgExpectedRef)

resolve_type(arg) ==
    LET made == new_arg_context(arg) IN
    IF ~made.ok
    THEN Err(made.msg)
    ELSE LET context == made.value
             inner_type == shared_type_arg(context.type_)
         IN  IF inner_type # None
             THEN IF optional_of_many(context)
                  THEN Err(MsgOptionVec)
                  ELSE IF Head(inner_type).kind = "trait"
                  THEN Ok(resolve_trait_type(inner_type, context))
                  ELSE IF Head(inner_type).kind = "path"
                  THEN Ok(resolve_struct_type(inner_type, context))
                  ELSE Err(MsgExpectedTraitOrStruct)
             ELSE IF FirstIdent(Head(context.type_)) = "ServiceProvider"
             THEN Ok(Resolved(CallSite("sp.clone", None), None))
             ELSE Err(MsgExpectedRef)

\* the match on one input of the loop of inject_argument_call_sites
resolve_input(fnarg) ==
    IF fnarg.kind = "typed" THEN resolve_type(fnarg.ty) ELSE Err(MsgNotTyped)

-----------------------------------------------------------------------------
(* Locating the injected method *)

RECURSIVE scan_items(_, _, _, _)
\* the loop of get_injected_method over impl_.items, from item i on
scan_items(items, i, convention, methods) ==
    IF i > Len(items)
    THEN [convention |-> convention, methods |-> methods]
    ELSE LET item == items[i] IN
         IF item.kind = "method"
         THEN scan_items(items, i + 1,
                         IF item.sig.ident = "new" THEN Some(item.sig) ELSE convention,
                         IF item.marked THEN Append(methods, item.sig) ELSE methods)
         ELSE scan_items(items, i + 1, convention, methods)

\* a locator that lets the conventional name win over a marker
get_injected_method_convention_first(impl_, path) ==
    LET scanned == scan_items(impl_.items, 1, None, << >>)
        convention == scanned.convention
        methods == scanned.methods
    IN  IF convention # None
        THEN Ok(convention[1])
        ELSE IF Len(methods) = 0
        THEN ErrFor(MsgMissing, LastIdent(path))
        ELSE IF Len(methods) = 1
        THEN Ok(methods[1])
        ELSE ErrFor(MsgAmbiguous, LastIdent(path))

\* a locator that takes the first marked method when several are marked
get_injected_method_first_marked(impl_, path) ==
    LET scanned == scan_items(impl_.items, 1, None, << >>)
        convention == scanned.convention
        methods == scanned.methods
    IN  IF Len(methods) = 0
        THEN IF convention # None
             THEN Ok(convention[1])
             ELSE ErrFor(MsgMissing, LastIdent(path))
        ELSE Ok(methods[1])

get_injected_method(impl_, path) ==
    LET scanned == scan_items(impl_.items, 1, None, << >>)
        convention == scanned.convention
        methods == scanned.methods
    IN  IF Len(methods) = 0
        THEN IF convention # None
             THEN Ok(convention[1])
             ELSE ErrFor(MsgMissing, LastIdent(path))
        ELSE IF Len(methods) = 1
        THEN Ok(methods[1])
        ELSE ErrFor(MsgAmbiguous, LastIdent(path))

-----------------------------------------------------------------------------
(* Rendering the Injectable implementation *)

\* a comparison of the whole paths instead of their last identifiers
is_trait_by_whole_path(implementation, service) == implementation # service

\* implementation.segments.last().ident != service.segments.last().ident
is_trait(implementation, service) == LastIdent(implementation) # LastIdent(service)

\* attribute.trait_.as_ref().unwrap_or(implementation)
service_of(attribute, implementation) ==
    IF attribute.kind = "path" THEN attribute.path ELSE implementation

\* di::ServiceDescriptorBuilder::<svc, Self>::new(lifetime, di::Type::of::<of>())
Builder(dyn, svc, of) ==
    [dyn |-> dyn, svc |-> svc, impl |-> SelfPath, lifetime |-> "lifetime", of |-> of]

\* a builder that is handed the alias as the type it is built for
new_builder_of_alias(implementation, service) ==
    IF is_trait(implementation, service)
    THEN Builder(TRUE, service, service)
    ELSE Builder(FALSE, SelfPath, SelfPath)

new_builder(implementation, service) ==
    IF is_trait(implementation, service)
    THEN Builder(TRUE, service, SelfPath)
    ELSE Builder(FALSE, SelfPath, SelfPath)

\* generated code that leaves out the where clause of the impl block
trait_impl_without_where(impl_, implementation, service, sig, callArgs, callDeps) ==
    [kind |-> "impl_injectable",
     generics |-> impl_.generics,
     for_ |-> implementation,
     where_ |-> "",
     new |-> new_builder(implementation, service),
     depends_on |-> callDeps,
     fn_ |-> sig.ident,
     args |-> callArgs]

\* the code quoted by implement_injectable once the call sites are known
trait_impl(impl_, implementation, service, sig, callArgs, callDeps) ==
    [kind |-> "impl_injectable",
     generics |-> impl_.generics,
     for_ |-> implementation,
     where_ |-> impl_.where_,
     new |-> new_builder(implementation, service),
     depends_on |-> callDeps,
     fn_ |-> sig.ident,
     args |-> callArgs]

\* error.to_compile_error()
compile_error(error) == [kind |-> "compile_error", msg |-> error.msg, subject |-> error.value]

-----------------------------------------------------------------------------
(* The inputs the macro is run on *)

Wrappers == {"Lazy", "Option", "Vec", "ServiceRef", "Rc", "Arc"}

\* innermost types: a struct, a trait object, a tuple, the provider handle
Leaves == {PathLayer("Bar"), Layer("trait", "", "Bar"), Layer("other", "", "(A, B)"),
           PathLayer("ServiceProvider")}

WrapperChains(n) == UNION {[1..k -> Wrappers] : k \in 0..n}

TypeOf(wrappers, leaf) == [i \in 1..Len(wrappers) |-> PathLayer(wrappers[i])] \o << leaf >>

\* the leading segment a wrapper is written with when its path is qualified:
\* std::rc::Rc, std::sync::Arc, std::option::Option, std::vec::Vec,
\* di::ServiceRef, di::Lazy
LeadOf(wrapper) == IF wrapper \in {"ServiceRef", "Lazy"} THEN "di" ELSE "std"

\* a nesting of wrappers whose q-th wrapper is written with a qualified path
QualifiedTypeOf(wrappers, q, leaf) ==
    [i \in 1..Len(wrappers) |->
        Layer("path", IF i = q THEN LeadOf(wrappers[i]) ELSE "", wrappers[i])]
    \o << leaf >>

QualifiedLeaves == {PathLayer("Bar"), Layer("trait", "", "Bar"), PathLayer("ServiceProvider")}

\* the types of the parameters of methods with several parameters: the
\* supported shapes, the provider handle and a type without any wrapper
ListTypes ==
    {TypeOf(w, leaf) :
        w \in {<< "Rc" >>, << "Option", "ServiceRef" >>, << "Vec", "Arc" >>, << "Lazy", "Rc" >>},
        leaf \in {PathLayer("Bar"), Layer("trait", "", "Foo")}}
    \cup {<< PathLayer("ServiceProvider") >>, << PathLayer("Bar") >>}

ParamLists == UNION {[1..k -> {Typed(t) : t \in ListTypes}] : k \in 0..MaxParams}

Paths ==
    {lead \o << Segment(ident, arguments) >> :
        lead \in {<< >>, << Segment("a", "") >>, << Segment("b", "") >>},
        ident \in {"Foo", "FooImpl"},
        arguments \in {"", "<T>"}}

Attributes ==
    {[kind |-> "empty", path |-> << >>], [kind |-> "invalid", path |-> << >>]}
    \cup {[kind |-> "path", path |-> p] : p \in Paths}

FooAttribute == [kind |-> "path", path |-> << Segment("Foo", "") >>]

SelfTypes ==
    {[kind |-> "other", path |-> << >>]} \cup {[kind |-> "path", path |-> p] : p \in Paths}

FooImplType == [kind |-> "path", path |-> << Segment("FooImpl", "") >>]

ItemImpl(self_ty, generics, where_, items) ==
    [kind |-> "impl", self_ty |-> self_ty, generics |-> generics, where_ |-> where_,
     items |-> items]

\* an item that is no impl block (a struct, a function)
OtherItem ==
    [kind |-> "other", self_ty |-> [kind |-> "other", path |-> << >>], generics |-> "",
     where_ |-> "", items |-> << >>]

RcDynBar == TypeOf(<< "Rc" >>, Layer("trait", "", "Bar"))

EmptyAttribute == [kind |-> "empty", path |-> << >>]

\* the items of impl blocks that differ in which items are methods, in their
\* names and in their markers
SelectionItems ==
    {ConstItem}
    \cup {Method(marked, Signature(ident, inputs)) :
            marked \in BOOLEAN, ident \in {"new", "create", "build"},
            inputs \in {<< >>, << Typed(RcDynBar) >>, << Receiver >>}}

ItemLists == UNION {[1..k -> SelectionItems] : k \in 0..MaxItems}

Generics ==
    {[generics |-> "", where_ |-> ""],
     [generics |-> "<T: Default>", where_ |-> ""],
     [generics |-> "<T: Default>", where_ |-> "where T: Debug"],
     [generics |-> "<TKey, TValue>", where_ |-> "where TKey: Debug, TValue: Debug"]}

-----------------------------------------------------------------------------
(* The run of _injectable *)

NoResult == Err("")

Given(attribute, item) == metadata = attribute /\ input = item

\* the macro is given one of: an impl block with every list of items; a method
\* new with one parameter of every type; the same with one wrapper written
\* with a qualified path; a marked method with every list of
\* parameters; every attribute on every implementing type, generic or not;
\* every attribute on an item that is no impl block
Init ==
    /\ \/ \E a \in {EmptyAttribute, FooAttribute}, items \in ItemLists :
             Given(a, ItemImpl(FooImplType, "", "", items))
       \/ \E w \in WrapperChains(MaxDepth), leaf \in Leaves :
             Given(FooAttribute,
                   ItemImpl(FooImplType, "", "",
                            << Method(FALSE, Signature("new", << Typed(TypeOf(w, leaf)) >>)) >>))
       \/ \E w \in WrapperChains(MaxDepth - 1), leaf \in QualifiedLeaves :
             \E q \in 1..Len(w) :
                Given(FooAttribute,
                      ItemImpl(FooImplType, "", "",
                               << Method(FALSE, Signature("new",
                                      << Typed(QualifiedTypeOf(w, q, leaf)) >>)) >>))
       \/ \E inputs \in ParamLists :
             Given(FooAttribute,
                   ItemImpl(FooImplType, "", "",
                            << Method(TRUE, Signature("create", inputs)) >>))
       \/ \E a \in Attributes, ty \in SelfTypes, g \in Generics,
             inputs \in {<< >>, << Typed(RcDynBar) >>} :
             Given(a, ItemImpl(ty, g.generics, g.where_,
                               << Method(FALSE, Signature("new", inputs)) >>))
       \/ \E a \in Attributes : Given(a, OtherItem)
    /\ pc = "parse"
    /\ method = NoSignature
    /\ idx = 1
    /\ args = << >>
    /\ deps = << >>
    /\ result = NoResult
    /\ output = << >>

implementation == input.self_ty.path

service == service_of(metadata, implementation)

\* a parse that goes on to the methods whatever the self type of the block is
Parse_any_self_type ==
    /\ pc = "parse"
    /\ IF metadata.kind = "invalid"
       THEN result' = Err(MsgUnexpectedToken) /\ pc' = "emit"
       ELSE IF input.kind # "impl"
       THEN result' = Err(MsgNotImpl) /\ pc' = "emit"
       ELSE result' = result /\ pc' = "locate"
    /\ UNCHANGED << metadata, input, method, idx, args, deps, output >>

\* parse2::<InjectableAttribute>(metadata), parse2::<ItemImpl>(input) and the
\* match on impl_.self_ty
Parse ==
    /\ pc = "parse"
    /\ IF metadata.kind = "invalid"
       THEN result' = Err(MsgUnexpectedToken) /\ pc' = "emit"
       ELSE IF input.kind # "impl"
       THEN result' = Err(MsgNotImpl) /\ pc' = "emit"
       ELSE IF input.self_ty.kind # "path"
       THEN result' = Err(MsgExpectedImplType) /\ pc' = "emit"
       ELSE result' = result /\ pc' = "locate"
    /\ UNCHANGED << metadata, input, method, idx, args, deps, output >>

\* match get_injected_method(&impl_, implementation)
Locate ==
    /\ pc = "locate"
    /\ LET found == get_injected_method(input, implementation) IN
       IF found.ok
       THEN method' = found.value /\ pc' = "inject" /\ result' = result
       ELSE method' = method /\ pc' = "emit" /\ result' = found
    /\ UNCHANGED << metadata, input, idx, args, deps, output >>

\* what one turn of the loop of inject_argument_call_sites pushes
push_args(callArgs, resolved) == Append(callArgs, resolved.arg)

\* a loop that puts each new declaration in front of the earlier ones
push_deps_in_front(callDeps, resolved) ==
    IF resolved.dep # None THEN << resolved.dep[1] >> \o callDeps ELSE callDeps

push_deps(callDeps, resolved) ==
    IF resolved.dep # None THEN Append(callDeps, resolved.dep[1]) ELSE callDeps

\* one turn of the loop of inject_argument_call_sites
InjectArgument ==
    /\ pc = "inject"
    /\ idx <= Len(method.inputs)
    /\ LET resolved == resolve_input(method.inputs[idx]) IN
       IF resolved.ok
       THEN /\ args' = push_args(args, resolved.value)
            /\ deps' = push_deps(deps, resolved.value)
            /\ idx' = idx + 1
            /\ UNCHANGED << pc, result >>
       ELSE /\ result' = resolved
            /\ pc' = "emit"
            /\ UNCHANGED << args, deps, idx >>
    /\ UNCHANGED << metadata, input, method, output >>

\* what _injectable returns in result on success
extend_original(original, generated) == << original, generated >>

\* the rest of implement_injectable, and original.extend(trait_impl)
ImplementInjectable ==
    /\ pc = "inject"
    /\ idx > Len(method.inputs)
    /\ result' = Ok(extend_original(input,
                        trait_impl(input, implementation, service, method, args, deps)))
    /\ pc' = "emit"
    /\ UNCHANGED << metadata, input, method, idx, args, deps, output >>

\* an emitter that keeps the annotated item next to the diagnostic
emitted_with_original(r) == IF r.ok THEN r.value ELSE << input, compile_error(r) >>

\* match result { Ok(output) => output, Err(error) => error.to_compile_error() }
emitted(r) == IF r.ok THEN r.value ELSE << compile_error(r) >>

Emit ==
    /\ pc = "emit"
    /\ output' = emitted(result)
    /\ pc' = "done"
    /\ UNCHANGED << metadata, input, method, idx, args, deps, result >>

Next == Parse \/ Locate \/ InjectArgument \/ ImplementInjectable \/ Emit

Spec == Init /\ [][Next]_vars

TypeOK ==
    /\ pc \in {"parse", "locate", "inject", "emit", "done"}
    /\ idx \in 1..(Len(method.inputs) + 1)
    /\ Len(args) = idx - 1
    /\ Len(deps) <= Len(args)
    /\ (output # << >>) => pc = "done"

-----------------------------------------------------------------------------
(* Vocabulary of the properties *)

\* metadata and item parse, and the item is an impl block of a named type
ParsedOk == metadata.kind # "invalid" /\ input.kind = "impl" /\ input.self_ty.kind = "path"

\* the run is past the search for the injected method
Located == ParsedOk /\ pc \in {"inject", "emit", "done"}

MarkedItems == {i \in DOMAIN input.items : input.items[i].kind = "method" /\ input.items[i].marked}

NewItems ==
    {i \in DOMAIN input.items :
        input.items[i].kind = "method" /\ input.items[i].sig.ident = "new"}

\* the output is the annotated item followed by one generated impl block
IsCode == pc = "done" /\ Len(output) = 2 /\ output[2].kind = "impl_injectable"

\* the output is one diagnostic and nothing else
IsDiagnostic == pc = "done" /\ Len(output) = 1 /\ output[1].kind = "compile_error"

Diagnostic(msg) == IsDiagnostic /\ output[1].msg = msg

-----------------------------------------------------------------------------
(* Properties *)

\* C1: when exactly one method carries #[inject] it is the one selected, also
\* when a method named new is present; when none carries it and a method named
\* new exists, new is selected; the generated factory calls the selected name.
C1_MarkedOrConventionSelected ==
    Located =>
        /\ Cardinality(MarkedItems) = 1 =>
              /\ \E i \in MarkedItems : method = input.items[i].sig
              /\ IsCode => \E i \in MarkedItems : output[2].fn_ = input.items[i].sig.ident
        /\ (MarkedItems = {} /\ NewItems # {}) =>
              /\ \E i \in NewItems : method = input.items[i].sig
              /\ IsCode => output[2].fn_ = "new"

\* a marked method named otherwise is called although new is present
C1_Witness ==
    /\ IsCode
    /\ Cardinality(MarkedItems) = 1
    /\ NewItems # {}
    /\ MarkedItems \cap NewItems = {}
    /\ output[2].fn_ = "create"

\* C2: two or more marked methods end in the "more than one" diagnostic, also
\* when new is there or marked; no marker and no new end in the "Neither"
\* diagnostic; no method is selected and no registration is emitted.
C2_AmbiguousOrMissingFails ==
    (Located /\ (Cardinality(MarkedItems) >= 2 \/ (MarkedItems = {} /\ NewItems = {}))) =>
        /\ pc \in {"emit", "done"}
        /\ method = NoSignature
        /\ args = << >> /\ deps = << >>
        /\ ~result.ok
        /\ result.msg = (IF MarkedItems = {} THEN MsgMissing ELSE MsgAmbiguous)
        /\ pc = "done" => /\ Diagnostic(result.msg)
                          /\ output[1].subject = << LastIdent(implementation) >>

\* two marked methods, one of them new, end in the diagnostic
C2_Witness ==
    /\ Diagnostic(MsgAmbiguous)
    /\ Cardinality(MarkedItems) = 2
    /\ MarkedItems \cap NewItems # {}

\* the selected method has a parameter that does not resolve
SomeInputFails ==
    \E i \in DOMAIN method.inputs : ~resolve_input(method.inputs[i]).ok

\* C3: the output is either the unchanged impl block followed by exactly one
\* generated impl of Injectable, or a diagnostic alone; when the search for
\* the method or the classification of any parameter fails it is the latter.
C3_AllOrNothing ==
    /\ pc # "done" => output = << >>
    /\ pc = "done" =>
         /\ IsCode \/ IsDiagnostic
         /\ IsCode =>
              /\ output[1] = input
              /\ ParsedOk /\ method # NoSignature /\ ~SomeInputFails
         /\ (ParsedOk /\ (method = NoSignature \/ SomeInputFails)) => IsDiagnostic

\* the second parameter fails after the first one resolved
C3_Witness ==
    /\ IsDiagnostic
    /\ Len(method.inputs) = 2
    /\ resolve_input(method.inputs[1]).ok
    /\ ~resolve_input(method.inputs[2]).ok
    /\ Len(args) = 1

SharedWrappers == {"ServiceRef", "Rc", "Arc"}

\* t is outer[1]< .. outer[n]< W< T > > .. > with W a shared-ownership wrapper
\* and T a trait object or a type path
Shaped(t, outer) ==
    /\ Len(t) > Len(outer) + 1
    /\ \A k \in 1..Len(outer) : t[k] = PathLayer(outer[k])
    /\ \E w \in SharedWrappers : t[Len(outer) + 1] = PathLayer(w)
    /\ t[Len(outer) + 2].kind \in {"trait", "path"}

\* the T of a type shaped as above
Identity(t, outer) == SubSeq(t, Len(outer) + 2, Len(t))

\* the parameter being resolved when the loop stopped with an error
FailedInput ==
    IF Located /\ method # NoSignature /\ pc \in {"emit", "done"} /\ ~result.ok
    THEN Some(method.inputs[idx])
    ELSE None

\* the retrieval and the declaration of every resolved parameter of a shape
\* of `table` are those of its row, and no parameter of such a shape fails
FollowsTable(table) ==
    \A row \in table :
        /\ \A i \in 1..Len(args) :
             LET t == method.inputs[i].ty IN
             (method.inputs[i].kind = "typed" /\ Shaped(t, row.outer)) =>
                 /\ args[i] = CallSite(row.call, Identity(t, row.outer))
                 /\ \E k \in 1..Len(deps) :
                        deps[k] = ServiceDependency(Identity(t, row.outer), row.cardinality)
                 /\ Len(method.inputs) = 1 =>
                        deps = << ServiceDependency(Identity(t, row.outer), row.cardinality) >>
                 /\ IsCode => /\ output[2].args[i] = args[i]
                              /\ output[2].depends_on = deps
        /\ FailedInput # None =>
             ~(FailedInput[1].kind = "typed" /\ Shaped(FailedInput[1].ty, row.outer))

Row(outer, call, cardinality) == [outer |-> outer, call |-> call, cardinality |-> cardinality]

EagerTable ==
    {Row(<< >>, "sp.get_required", "ExactlyOne"),
     Row(<< "Option" >>, "sp.get", "ZeroOrOne"),
     Row(<< "Vec" >>, "sp.get_all.collect", "ZeroOrMore")}

LazyTable ==
    {Row(<< "Lazy" >>, "di::lazy::exactly_one", "ExactlyOne"),
     Row(<< "Lazy", "Option" >>, "di::lazy::zero_or_one", "ZeroOrOne"),
     Row(<< "Lazy", "Vec" >>, "di::lazy::zero_or_more", "ZeroOrMore")}

\* the retrieval calls each cardinality goes with
Agreeing ==
    {<< "sp.get_required", "ExactlyOne" >>, << "di::lazy::exactly_one", "ExactlyOne" >>,
     << "sp.get", "ZeroOrOne" >>, << "di::lazy::zero_or_one", "ZeroOrOne" >>,
     << "sp.get_all.collect", "ZeroOrMore" >>, << "di::lazy::zero_or_more", "ZeroOrMore" >>}

\* C4: W<T>, Option<W<T>> and Vec<W<T>> (W one of ServiceRef, Rc, Arc) give
\* (T, ExactlyOne) with get_required, (T, ZeroOrOne) with get and
\* (T, ZeroOrMore) with get_all().collect(); the cardinality declared for a
\* parameter agrees with the retrieval call chosen for it.
C4_EagerCardinalityTable ==
    /\ FollowsTable(EagerTable)
    /\ (Len(method.inputs) = 1 /\ Len(deps) = 1) =>
          /\ << args[1].call, deps[1].cardinality >> \in Agreeing
          /\ args[1].ty = deps[1].ty

\* a Vec<Arc<dyn Bar>> parameter came out as get_all().collect() and ZeroOrMore
C4_Witness ==
    /\ IsCode
    /\ Len(method.inputs) = 1
    /\ method.inputs[1].ty = TypeOf(<< "Vec", "Arc" >>, Layer("trait", "", "Bar"))
    /\ output[2].args[1].call = "sp.get_all.collect"
    /\ output[2].depends_on[1].cardinality = "ZeroOrMore"

\* C5: Lazy<W<T>>, Lazy<Option<W<T>>> and Lazy<Vec<W<T>>> give
\* di::lazy::exactly_one, zero_or_one and zero_or_more over sp.clone(), and
\* the declaration is the one the type inside Lazy gives on its own.
C5_LazyCounterparts ==
    /\ FollowsTable(LazyTable)
    /\ \A i \in 1..Len(args) :
         LET t == method.inputs[i].ty IN
         (/\ method.inputs[i].kind = "typed"
          /\ \E row \in LazyTable : Shaped(t, row.outer)
          /\ Len(method.inputs) = 1) =>
             /\ resolve_type(Tail(t)).ok
             /\ resolve_type(Tail(t)).value.dep = deps
             /\ resolve_type(Tail(t)).value.arg.call \in {"sp.get_required", "sp.get", "sp.get_all.collect"}

\* a Lazy<Option<Rc<Bar>>> parameter came out as zero_or_one and ZeroOrOne
C5_Witness ==
    /\ IsCode
    /\ Len(method.inputs) = 1
    /\ method.inputs[1].ty = TypeOf(<< "Lazy", "Option", "Rc" >>, PathLayer("Bar"))
    /\ output[2].args[1] = CallSite("di::lazy::zero_or_one", << PathLayer("Bar") >>)
    /\ output[2].depends_on = << ServiceDependency(<< PathLayer("Bar") >>, "ZeroOrOne") >>

RECURSIVE DeclarationsOf(_)
\* the declarations of a list of parameters, each resolved on its own, in order
DeclarationsOf(inputs) ==
    IF inputs = << >>
    THEN << >>
    ELSE resolve_input(Head(inputs)).value.dep \o DeclarationsOf(Tail(inputs))

\* C6: when all N parameters resolve, the i-th argument of the factory call is
\* the retrieval of the i-th parameter and the depends_on chain lists the
\* declarations in parameter order, provider handles adding none.
C6_OrderPreserved ==
    IsCode =>
        /\ Len(output[2].args) = Len(method.inputs)
        /\ \A i \in DOMAIN method.inputs :
              output[2].args[i] = resolve_input(method.inputs[i]).value.arg
        /\ output[2].depends_on = DeclarationsOf(method.inputs)

\* two parameters with different declarations around a provider handle
C6_Witness ==
    /\ IsCode
    /\ Len(method.inputs) = 3
    /\ Len(output[2].depends_on) = 2
    /\ output[2].args[2].call = "sp.clone"
    /\ output[2].depends_on[1] # output[2].depends_on[2]

\* C7: a parameter typed Option<Vec<W<T>>>, also inside Lazy, T a trait object
\* or a concrete type, ends in the "Option<Vec> is not supported" diagnostic.
C7_OptionVecDiagnostic ==
    (/\ pc = "done"
     /\ Located
     /\ Len(method.inputs) = 1
     /\ method.inputs[1].kind = "typed"
     /\ \/ Shaped(method.inputs[1].ty, << "Option", "Vec" >>)
        \/ Shaped(method.inputs[1].ty, << "Lazy", "Option", "Vec" >>)) =>
        Diagnostic(MsgOptionVec)

\* an alias was given and its last identifier is not the implementing type's
AliasDiffers ==
    /\ metadata.kind = "path"
    /\ metadata.path[Len(metadata.path)].ident # implementation[Len(implementation)].ident

\* C8: the builder is ServiceDescriptorBuilder::<Self, Self> when no alias is
\* given or the last identifiers of alias and implementing type are equal, and
\* ServiceDescriptorBuilder::<dyn Alias, Self> exactly when they differ;
\* leading segments and generic arguments play no part.
C8_SelfOrAliasBuilder ==
    IsCode =>
        /\ output[2].new.impl = SelfPath
        /\ AliasDiffers => (output[2].new.dyn /\ output[2].new.svc = metadata.path)
        /\ ~AliasDiffers => (~output[2].new.dyn /\ output[2].new.svc = SelfPath)

\* alias b::Foo<T> on the implementing type a::Foo is registered as Self
C8_Witness ==
    /\ IsCode
    /\ metadata.kind = "path"
    /\ metadata.path = << Segment("b", ""), Segment("Foo", "<T>") >>
    /\ implementation = << Segment("a", ""), Segment("Foo", "") >>
    /\ ~output[2].new.dyn

\* C9 as stated: the identity handed to the builder's new(lifetime, ..) is the
\* alias when an alias with another simple name was given, and the
\* implementing identity otherwise.
C9_TargetIsAlias ==
    IsCode =>
        output[2].new.of = (IF AliasDiffers THEN metadata.path ELSE SelfPath)

\* C9 as amended: the identity handed to the builder's new(lifetime, ..) is
\* always the implementing identity, di::Type::of::<Self>(), with or without
\* an alias; a differing alias only becomes the builder's first type
\* parameter, dyn Alias.
C9_TargetIsImplementation ==
    IsCode =>
        /\ output[2].new.of = SelfPath
        /\ output[2].new.lifetime = "lifetime"
        /\ AliasDiffers => output[2].new.svc # output[2].new.of

\* an alias Foo on FooImpl, and the builder is still handed Self
C9_Witness ==
    /\ IsCode
    /\ AliasDiffers
    /\ output[2].new.dyn
    /\ output[2].new.svc = << Segment("Foo", "") >>
    /\ output[2].new.of = SelfPath

RECURSIVE Unwrapped(_)
\* a type without the Lazy, Option and Vec layers around it
Unwrapped(t) ==
    IF Len(t) > 1 /\ Head(t) \in {PathLayer("Lazy"), PathLayer("Option"), PathLayer("Vec")}
    THEN Unwrapped(Tail(t))
    ELSE t

\* a parameter of the provider handle type, whatever flags are around it
ProviderHandle(fnarg) ==
    fnarg.kind = "typed" /\ Head(Unwrapped(fnarg.ty)) = PathLayer("ServiceProvider")

\* a parameter with a shared-ownership wrapper
SharedOwnership(fnarg) ==
    /\ fnarg.kind = "typed"
    /\ Len(Unwrapped(fnarg.ty)) > 1
    /\ Head(Unwrapped(fnarg.ty)).ident \in SharedWrappers

Declared(n) == {i \in 1..n : ~ProviderHandle(method.inputs[i])}

\* C10: a ServiceProvider parameter gives sp.clone() and no declaration, every
\* parameter with a shared-ownership wrapper gives exactly one; so on success
\* there are as many arguments as parameters and as many declarations as
\* parameters that are no provider handle, none of either for no parameters.
C10_DeclarationCount ==
    /\ \A i \in 1..Len(args) :
          /\ ProviderHandle(method.inputs[i]) # SharedOwnership(method.inputs[i])
          /\ ProviderHandle(method.inputs[i]) => args[i] = CallSite("sp.clone", None)
    /\ Len(deps) = Cardinality(Declared(Len(args)))
    /\ FailedInput # None => FailedInput[1] # Typed(<< PathLayer("ServiceProvider") >>)
    /\ IsCode =>
          /\ Len(output[2].args) = Len(method.inputs)
          /\ Len(output[2].depends_on) = Cardinality(Declared(Len(method.inputs)))
          /\ method.inputs = << >> => (output[2].args = << >> /\ output[2].depends_on = << >>)

\* a provider handle first and a dependency second: two arguments, one declaration
C10_Witness ==
    /\ IsCode
    /\ Len(method.inputs) = 2
    /\ method.inputs[1].ty = << PathLayer("ServiceProvider") >>
    /\ output[2].args[1] = CallSite("sp.clone", None)
    /\ Len(output[2].args) = 2
    /\ Len(output[2].depends_on) = 1

\* the only parameter of the selected method is typed, and its resolution is over
OneTypedInput ==
    /\ Located
    /\ method # NoSignature
    /\ Len(method.inputs) = 1
    /\ method.inputs[1].kind = "typed"
    /\ (Len(args) = 1 \/ FailedInput # None)

\* the type with its innermost type turned from Bar into dyn Bar and back
OtherFamily(t) ==
    [i \in 1..Len(t) |->
        IF i = Len(t)
        THEN IF t[i] = PathLayer("Bar") THEN Layer("trait", "", "Bar") ELSE PathLayer("Bar")
        ELSE t[i]]

\* a shared-ownership wrapper directly around Bar or dyn Bar, under any wrappers
SharedAroundBar(t) ==
    /\ Len(t) >= 2
    /\ \E w \in SharedWrappers : t[Len(t) - 1] = PathLayer(w)
    /\ t[Len(t)] \in {PathLayer("Bar"), Layer("trait", "", "Bar")}

\* C11: for every combination of the optional, multi and deferred flags a
\* shared-ownership parameter of a concrete type gives the retrieval and the
\* declaration that the same parameter of a dyn trait object gives, up to the
\* identity; no combination is accepted for one family and refused for the other.
C11_FamiliesParallel ==
    (OneTypedInput /\ SharedAroundBar(method.inputs[1].ty)) =>
        LET other == resolve_type(OtherFamily(method.inputs[1].ty)) IN
        /\ other.ok = (Len(args) = 1)
        /\ ~other.ok => other.msg = result.msg
        /\ other.ok =>
              /\ other.value.arg.call = args[1].call
              /\ other.value.arg.ty = OtherFamily(args[1].ty)
              /\ Len(other.value.dep) = 1 /\ Len(deps) = 1
              /\ other.value.dep[1].cardinality = deps[1].cardinality
              /\ other.value.dep[1].ty = OtherFamily(deps[1].ty)

\* a deferred collection of a concrete type, resolved as the trait object is
C11_Witness ==
    /\ IsCode
    /\ Len(method.inputs) = 1
    /\ method.inputs[1].ty = TypeOf(<< "Lazy", "Vec", "Rc" >>, PathLayer("Bar"))
    /\ output[2].args[1] = CallSite("di::lazy::zero_or_more", << PathLayer("Bar") >>)
    /\ resolve_type(TypeOf(<< "Lazy", "Vec", "Rc" >>, Layer("trait", "", "Bar"))).value.arg.call
          = "di::lazy::zero_or_more"

\* C12: the generated impl of Injectable has the generic parameter list and
\* the where clause of the annotated impl block, names the implementing type
\* with its generic arguments, and a generic alias is the builder's dyn type
\* with its generic arguments unchanged.
C12_GenericsCarried ==
    IsCode =>
        /\ output[2].generics = input.generics
        /\ output[2].where_ = input.where_
        /\ output[2].for_ = input.self_ty.path
        /\ output[1].generics = input.generics /\ output[1].where_ = input.where_
        /\ AliasDiffers =>
              /\ output[2].new.dyn
              /\ \A k \in DOMAIN metadata.path :
                    output[2].new.svc[k].arguments = metadata.path[k].arguments

\* a generic impl block with a where clause registered under a generic alias
C12_Witness ==
    /\ IsCode
    /\ input.generics = "<TKey, TValue>"
    /\ input.where_ = "where TKey: Debug, TValue: Debug"
    /\ input.self_ty.path = << Segment("FooImpl", "<T>") >>
    /\ metadata.path = << Segment("Foo", "<T>") >>
    /\ output[2].where_ = "where TKey: Debug, TValue: Debug"
    /\ output[2].new.svc = << Segment("Foo", "<T>") >>

\* the annotated item is no impl block of a named type
MalformedTarget == input.kind # "impl" \/ input.self_ty.kind # "path"

\* C13: when the annotated item is not an impl block, or an impl block whose
\* self type is no type path, the output is a diagnostic alone: no method is
\* looked for, no parameter is classified, no registration is emitted.
C13_MalformedTargetFails ==
    MalformedTarget =>
        /\ pc \in {"parse", "emit", "done"}
        /\ method = NoSignature
        /\ idx = 1 /\ args = << >> /\ deps = << >>
        /\ pc # "parse" =>
              /\ ~result.ok
              /\ result.msg = (IF metadata.kind = "invalid" THEN MsgUnexpectedToken
                               ELSE IF input.kind # "impl" THEN MsgNotImpl
                               ELSE MsgExpectedImplType)
        /\ pc = "done" => Diagnostic(result.msg)

\* an impl block of a type that is no path, with a method new, ends in the diagnostic
C13_Witness ==
    /\ Diagnostic(MsgExpectedImplType)
    /\ input.kind = "impl"
    /\ input.self_ty.kind = "other"
    /\ NewItems # {}

\* where the outermost shared-ownership wrapper of t is, under Lazy, Option
\* and Vec wrappers only; 0 when there is none
SharedAt(t) ==
    IF Len(Unwrapped(t)) > 1 /\ \E w \in SharedWrappers : Head(Unwrapped(t)) = PathLayer(w)
    THEN Len(t) - Len(Unwrapped(t)) + 1
    ELSE 0

\* C14: under every combination of the Option, Vec and Lazy wrappers and for
\* every inner type, writing Rc<T> or Arc<T> for ServiceRef<T> (or any of the
\* three for another) leaves the retrieval and the declaration as they are.
C14_SharedWrappersInterchangeable ==
    (OneTypedInput /\ SharedAt(method.inputs[1].ty) > 0) =>
        \A w \in SharedWrappers :
            LET t == method.inputs[1].ty
                other == resolve_type([t EXCEPT ![SharedAt(t)] = PathLayer(w)])
            IN  /\ other.ok = (Len(args) = 1)
                /\ other.ok => (other.value.arg = args[1] /\ other.value.dep = deps)
                /\ ~other.ok => other.msg = result.msg

\* an optional Arc resolved as the optional ServiceRef and the optional Rc are
C14_Witness ==
    /\ IsCode
    /\ Len(method.inputs) = 1
    /\ method.inputs[1].ty = TypeOf(<< "Option", "Arc" >>, Layer("trait", "", "Bar"))
    /\ resolve_type(TypeOf(<< "Option", "ServiceRef" >>, Layer("trait", "", "Bar"))).value.arg
          = output[2].args[1]
    /\ resolve_type(TypeOf(<< "Option", "Rc" >>, Layer("trait", "", "Bar"))).value.dep
          = output[2].depends_on
    /\ output[2].args[1].call = "sp.get"

\* the wrappers a shared-ownership wrapper or the provider handle may be under
FixedOrders ==
    {<< >>, << "Lazy" >>, << "Option" >>, << "Vec" >>, << "Lazy", "Option" >>,
     << "Lazy", "Vec" >>}

\* t is [Lazy<] [Option< or Vec<] W< .. >, W a shared-ownership wrapper
InFixedOrder(t) ==
    \E outer \in FixedOrders :
        /\ Len(t) > Len(outer) + 1
        /\ \A k \in 1..Len(outer) : t[k] = PathLayer(outer[k])
        /\ \E w \in SharedWrappers : t[Len(outer) + 1] = PathLayer(w)

\* t is the provider handle, under those wrappers
IsProviderHandle(t) ==
    \E outer \in FixedOrders : t = TypeOf(outer, PathLayer("ServiceProvider"))

\* the diagnostics of a parameter type that has none of the supported shapes
UnsupportedParameterType == {MsgExpectedRef, MsgExpectedPath}

\* C15: a parameter whose wrappers are nested in another order than [Lazy],
\* [Option or Vec], shared-ownership wrapper, and a parameter without a
\* shared-ownership wrapper that is no provider handle, fail as an unsupported
\* type; no retrieval and no declaration is produced for them.
C15_OtherOrdersRejected ==
    (/\ OneTypedInput
     /\ ~InFixedOrder(method.inputs[1].ty)
     /\ ~IsProviderHandle(method.inputs[1].ty)) =>
        /\ args = << >> /\ deps = << >>
        /\ ~result.ok
        /\ result.msg \in UnsupportedParameterType
        /\ pc = "done" => Diagnostic(result.msg)

\* Vec<Option<Rc<dyn Bar>>> ends in the diagnostic
C15_Witness ==
    /\ Diagnostic(MsgExpectedRef)
    /\ Len(method.inputs) = 1
    /\ method.inputs[1].ty = TypeOf(<< "Vec", "Option", "Rc" >>, Layer("trait", "", "Bar"))
    /\ args = << >>

\* C16: Option<ServiceProvider>, Vec<ServiceProvider>, Lazy<ServiceProvider>,
\* Lazy<Option<ServiceProvider>> and Lazy<Vec<ServiceProvider>> are accepted
\* without a diagnostic and give what a plain ServiceProvider parameter gives:
\* the retrieval sp.clone() and no declaration.
C16_ProviderFlagsIgnored ==
    (/\ OneTypedInput
     /\ IsProviderHandle(method.inputs[1].ty)
     /\ Len(method.inputs[1].ty) > 1) =>
        LET plain == resolve_type(<< PathLayer("ServiceProvider") >>) IN
        /\ FailedInput = None
        /\ plain.ok
        /\ args = << plain.value.arg >>
        /\ args[1] = CallSite("sp.clone", None)
        /\ deps = plain.value.dep /\ deps = << >>
        /\ pc = "done" =>
              /\ IsCode
              /\ output[2].args = args
              /\ output[2].depends_on = << >>

\* Lazy<Vec<ServiceProvider>> came out as sp.clone() without a declaration
C16_Witness ==
    /\ IsCode
    /\ Len(method.inputs) = 1
    /\ method.inputs[1].ty = TypeOf(<< "Lazy", "Vec" >>, PathLayer("ServiceProvider"))
    /\ output[2].args = << CallSite("sp.clone", None) >>
    /\ output[2].depends_on = << >>

\* the place of the wrapper of t that is written with a qualified path, or 0
QualifiedAt(t) ==
    IF \E k \in 1..Len(t) : t[k].lead # ""
    THEN CHOOSE k \in 1..Len(t) : t[k].lead # ""
    ELSE 0

\* C17: a wrapper written with a qualified path (std::rc::Rc<T>,
\* di::Lazy<Rc<T>>, ..) is never recognized as that wrapper.  The parameter
\* fails with an unsupported-parameter-type diagnostic, or the qualified type
\* lies inside a recognized shared-ownership wrapper and belongs, whole, to
\* the concrete base identity; the outcome is that of the same parameter with
\* a plain struct name in the place of the qualified wrapper.
C17_QualifiedWrapperUnrecognized ==
    (OneTypedInput /\ QualifiedAt(method.inputs[1].ty) > 0) =>
        LET t == method.inputs[1].ty
            q == QualifiedAt(t)
            plain == resolve_type([t EXCEPT ![q] = PathLayer("Bar")])
        IN  /\ FailedInput # None =>
                  /\ args = << >> /\ deps = << >>
                  /\ result.msg \in UnsupportedParameterType
                  /\ ~plain.ok /\ plain.msg = result.msg
            /\ q = 1 => FailedInput # None
            /\ FailedInput = None =>
                  LET s == Len(t) - Len(args[1].ty) + 1 IN
                  /\ 1 < s /\ s <= q
                  /\ args[1].ty = SubSeq(t, s, Len(t))
                  /\ args[1].ty[q - s + 1] = t[q]
                  /\ t[s - 1] \in {PathLayer(w) : w \in SharedWrappers}
                  /\ \A k \in 1..(s - 2) :
                        t[k] \in {PathLayer("Lazy"), PathLayer("Option"), PathLayer("Vec")}
                  /\ Len(deps) = 1 /\ deps[1].ty = args[1].ty
                  /\ plain.ok
                  /\ plain.value.arg.call = args[1].call
                  /\ plain.value.arg.ty = [args[1].ty EXCEPT ![q - s + 1] = PathLayer("Bar")]
                  /\ plain.value.dep[1].cardinality = deps[1].cardinality

\* Option<Rc<std::rc::Rc<Bar>>> came out as the optional struct std::rc::Rc<Bar>
C17_Witness ==
    /\ IsCode
    /\ Len(method.inputs) = 1
    /\ method.inputs[1].ty = QualifiedTypeOf(<< "Option", "Rc", "Rc" >>, 3, PathLayer("Bar"))
    /\ output[2].args =
          << CallSite("sp.get", << Layer("path", "std", "Rc"), PathLayer("Bar") >>) >>
    /\ output[2].depends_on =
          << ServiceDependency(<< Layer("path", "std", "Rc"), PathLayer("Bar") >>, "ZeroOrOne") >>

\* di::Lazy<Rc<dyn Bar>> was rejected as a type without a shared-ownership wrapper
C17_WitnessRejected ==
    /\ IsDiagnostic
    /\ Len(method.inputs) = 1
    /\ method.inputs[1].ty = QualifiedTypeOf(<< "Lazy", "Rc" >>, 1, Layer("trait", "", "Bar"))
    /\ Diagnostic(MsgExpectedRef)

====
